---- MODULE Spec2Model ----
(***************************************************************************)
(* Model of src/PV_project_simulation.py: a Streamlit script that is run   *)
(* top to bottom on every interaction.  The three widgets give the inputs, *)
(* the script binds its module-level names one section after the other,   *)
(* and the arithmetic is Python's: float is IEEE 754 binary64, every       *)
(* operation rounded to nearest, ties to even.                             *)
(*                                                                         *)
(* TLC's integers are 32 bits wide, so the 53-bit significand of a float   *)
(* is kept as a little-endian sequence of 15-bit limbs (B...), and a float *)
(* is the record [s, m, e] of value (-1)^s * m * 2^e with m of exactly 53  *)
(* bits, or the zero record.  The values of this program stay far away     *)
(* from overflow, underflow and NaN, which are therefore not represented.  *)
(* The arithmetic is written as functions, which take their arguments by   *)
(* value as the Python operators do.                                       *)
(***************************************************************************)
EXTENDS Integers, Naturals, Sequences, FiniteSets, TLC

(***************************************************************************)
(* Natural numbers of arbitrary size, as limbs.                            *)
(***************************************************************************)
LimbBits == 15

Base == 32768

\* the limbs of a natural number, the lowest first
BigNat == Seq(Nat)

Pow2[k \in Nat] == IF k = 0 THEN 1 ELSE 2 * Pow2[k - 1]

BNorm[a \in BigNat] ==
  IF a = <<>> THEN a
  ELSE IF a[Len(a)] = 0 THEN BNorm[SubSeq(a, 1, Len(a) - 1)] ELSE a

BFromInt[n \in Nat] ==
  IF n = 0 THEN <<>> ELSE <<n % Base>> \o BFromInt[n \div Base]

Limb[a \in BigNat, i \in Nat] == IF i <= Len(a) THEN a[i] ELSE 0

BAddC[a \in BigNat, b \in BigNat, i \in Nat, c \in Nat] ==
  IF i > Len(a) /\ i > Len(b)
  THEN (IF c = 0 THEN <<>> ELSE <<c>>)
  ELSE LET s == Limb[a, i] + Limb[b, i] + c
       IN  <<s % Base>> \o BAddC[a, b, i + 1, s \div Base]

BAdd[a \in BigNat, b \in BigNat] == BAddC[a, b, 1, 0]

\* a - b for a >= b
BSubC[a \in BigNat, b \in BigNat, i \in Nat, c \in Nat] ==
  IF i > Len(a) THEN <<>>
  ELSE LET d == a[i] - Limb[b, i] - c
       IN  IF d < 0 THEN <<d + Base>> \o BSubC[a, b, i + 1, 1]
           ELSE <<d>> \o BSubC[a, b, i + 1, 0]

BSub[a \in BigNat, b \in BigNat] == BNorm[BSubC[a, b, 1, 0]]

\* -1, 0, 1 as a < b, a = b, a > b (both normalised)
BCmpAt[a \in BigNat, b \in BigNat, i \in Nat] ==
  IF i = 0 THEN 0
  ELSE IF a[i] < b[i] THEN -1
  ELSE IF a[i] > b[i] THEN 1
  ELSE BCmpAt[a, b, i - 1]

BCmp[a \in BigNat, b \in BigNat] ==
  IF Len(a) < Len(b) THEN -1
  ELSE IF Len(a) > Len(b) THEN 1
  ELSE BCmpAt[a, b, Len(a)]

\* a * k for 0 <= k < Base
BMulSmallC[a \in BigNat, k \in Nat, i \in Nat, c \in Nat] ==
  IF i > Len(a) THEN (IF c = 0 THEN <<>> ELSE <<c>>)
  ELSE LET p == a[i] * k + c
       IN  <<p % Base>> \o BMulSmallC[a, k, i + 1, p \div Base]

BMulSmall[a \in BigNat, k \in Nat] ==
  IF k = 0 THEN <<>> ELSE BMulSmallC[a, k, 1, 0]

Zeros[n \in Nat] == [i \in 1..n |-> 0]

BShiftLimbs[a \in BigNat, n \in Nat] == IF a = <<>> THEN a ELSE Zeros[n] \o a

BMulAt[a \in BigNat, b \in BigNat, j \in Nat] ==
  IF j > Len(b) THEN <<>>
  ELSE BAdd[BShiftLimbs[BMulSmall[a, b[j]], j - 1], BMulAt[a, b, j + 1]]

BMul[a \in BigNat, b \in BigNat] == BMulAt[a, b, 1]

\* a * 2^k
BShl[a \in BigNat, k \in Nat] ==
  BShiftLimbs[BMulSmall[a, Pow2[k % LimbBits]], k \div LimbBits]

\* floor(a / d) for 1 <= d < Base, from the top limb down
BDivSmallAt[a \in BigNat, d \in Nat, i \in Nat, r \in Nat] ==
  IF i = 0 THEN <<>>
  ELSE LET x == r * Base + a[i]
       IN  BDivSmallAt[a, d, i - 1, x % d] \o <<x \div d>>

BDivSmall[a \in BigNat, d \in Nat] == BNorm[BDivSmallAt[a, d, Len(a), 0]]

\* floor(a / 2^k)
BShr[a \in BigNat, k \in Nat] ==
  LET n == k \div LimbBits
  IN  IF n >= Len(a) THEN <<>>
      ELSE BDivSmall[SubSeq(a, n + 1, Len(a)), Pow2[k % LimbBits]]

IntBitLen[n \in Nat] == IF n = 0 THEN 0 ELSE 1 + IntBitLen[n \div 2]

BBitLen[a \in BigNat] ==
  IF a = <<>> THEN 0 ELSE (Len(a) - 1) * LimbBits + IntBitLen[a[Len(a)]]

\* bit i of a, bit 0 the lowest
BBit[a \in BigNat, i \in Nat] ==
  (Limb[a, i \div LimbBits + 1] \div Pow2[i % LimbBits]) % 2

\* whether the k low bits of a are all 0
BLowZero[a \in BigNat, k \in Nat] == BShl[BShr[a, k], k] = a

\* the largest d <= est with d * b <= r
BDigit[r \in BigNat, b \in BigNat, est \in Nat] ==
  IF BCmp[BMulSmall[b, est], r] > 0 THEN BDigit[r, b, est - 1] ELSE est

\* the quotient digit of r by b guessed from their top limbs; it is at most
\* 2 too large when the top limb of b has its highest bit set
BEstimate[r \in BigNat, b \in BigNat] ==
  LET n == Len(b)
      g == (Limb[r, n + 1] * Base + Limb[r, n]) \div b[n]
  IN  IF g > Base - 1 THEN Base - 1 ELSE g

\* long division in base Base from limb i of a down; qr is the pair
\* <<quotient, remainder>> of the limbs above i
\* <<d, r - d * b>>
BStep[r \in BigNat, b \in BigNat, d \in Nat] == <<d, BSub[r, BMulSmall[b, d]]>>

\* the quotient digit and the remainder of r by b, for r < Base * b
BDivDigit[r \in BigNat, b \in BigNat] ==
  IF BCmp[r, b] < 0 THEN <<0, r>>
  ELSE BStep[r, b, BDigit[r, b, BEstimate[r, b]]]

\* the pair <<quotient, remainder>> with the digit and the remainder dr
\* of one more step
BPush[q \in BigNat, dr \in Nat \X BigNat] == <<<<dr[1]>> \o q, dr[2]>>

BDivAt[a \in BigNat, b \in BigNat, i \in Nat, qr \in BigNat \X BigNat] ==
  IF i = 0 THEN <<BNorm[qr[1]], qr[2]>>
  ELSE BDivAt[a, b, i - 1,
              BPush[qr[1], BDivDigit[BNorm[<<a[i]>> \o qr[2]], b]]]

\* <<floor(a / b), a - floor(a / b) * b>> for b # 0 with the highest bit
\* of its top limb set
BDivNormal[a \in BigNat, b \in BigNat] ==
  BDivAt[a, b, Len(a), <<<<>>, <<>>>>]

\* <<floor(a / b), a remainder scaled by a power of 2>> for b # 0
BDiv[a \in BigNat, b \in BigNat] ==
  LET sh == LimbBits - IntBitLen[b[Len(b)]]
  IN  BDivNormal[BShl[a, sh], BShl[b, sh]]

(***************************************************************************)
(* Python float: IEEE 754 binary64, round to nearest, ties to even.        *)
(***************************************************************************)
Precision == 53

Zero == [s |-> 0, m |-> <<>>, e |-> 0]

Float == [s : {0, 1}, m : BigNat, e : Int]

\* the float nearest to (-1)^s * n * 2^e
\* whether n, cut k >= 1 bits from the bottom, rounds away from zero: the
\* bits cut are above one half, or are one half and the bit kept above
\* them is odd
RoundsUp[n \in BigNat, k \in Nat] ==
  /\ BBit[n, k - 1] = 1
  /\ (BBit[n, k] = 1 \/ ~BLowZero[n, k - 1])

\* (-1)^s * m * 2^e for m of 53 bits, or of 54 bits when the rounding
\* carried, m then being 2^53
Carried[s \in {0, 1}, m \in BigNat, e \in Int] ==
  IF BBitLen[m] > Precision
  THEN [s |-> s, m |-> BShr[m, 1], e |-> e + 1]
  ELSE [s |-> s, m |-> m, e |-> e]

\* the float nearest to (-1)^s * n * 2^e for n # 0 of Precision + k bits
RoundTo[s \in {0, 1}, n \in BigNat, e \in Int, k \in Int] ==
  IF k <= 0 THEN [s |-> s, m |-> BShl[n, 0 - k], e |-> e + k]
  ELSE Carried[s, BAdd[BShr[n, k], IF RoundsUp[n, k] THEN <<1>> ELSE <<>>],
               e + k]

\* the float nearest to (-1)^s * n * 2^e
Round[s \in {0, 1}, n \in BigNat, e \in Int] ==
  IF n = <<>> THEN Zero ELSE RoundTo[s, n, e, BBitLen[n] - Precision]

\* int -> float, exact for the integers of this program
FromInt[n \in Nat] == Round[0, BFromInt[n], 0]

FNeg[x \in Float] == IF x = Zero THEN x ELSE [x EXCEPT !.s = 1 - x.s]

\* two significands a and b over one exponent e
Alignment == [a : BigNat, b : BigNat, e : Int]

\* both significands over the smaller exponent
Aligned[x \in Float, y \in Float] ==
  LET emin == IF x = Zero THEN y.e
              ELSE IF y = Zero THEN x.e
              ELSE IF x.e < y.e THEN x.e ELSE y.e
  IN  [a |-> IF x = Zero THEN <<>> ELSE BShl[x.m, x.e - emin],
       b |-> IF y = Zero THEN <<>> ELSE BShl[y.m, y.e - emin],
       e |-> emin]

\* -1, 0, 1 as x < y, x = y, x > y
BCmpAligned[al \in Alignment] == BCmp[al.a, al.b]

FCmp[x \in Float, y \in Float] ==
  IF x.s # y.s THEN (IF x.s = 1 THEN -1 ELSE 1)
  ELSE (IF x.s = 1 THEN -1 ELSE 1) * BCmpAligned[Aligned[x, y]]

FLt[x \in Float, y \in Float] == FCmp[x, y] < 0

FLe[x \in Float, y \in Float] == FCmp[x, y] <= 0

\* (-1)^sx * a + (-1)^sy * b as <<sign, magnitude>>
SignedSum[sx \in {0, 1}, a \in BigNat, sy \in {0, 1}, b \in BigNat] ==
  IF sx = sy THEN <<sx, BAdd[a, b]>>
  ELSE IF BCmp[a, b] >= 0 THEN <<sx, BSub[a, b]>>
  ELSE <<sy, BSub[b, a]>>

RoundSigned[sm \in {0, 1} \X BigNat, e \in Int] == Round[sm[1], sm[2], e]

AddAligned[sx \in {0, 1}, sy \in {0, 1}, al \in Alignment] ==
  RoundSigned[SignedSum[sx, al.a, sy, al.b], al.e]

FAdd[x \in Float, y \in Float] ==
  IF x = Zero THEN y
  ELSE IF y = Zero THEN x
  ELSE AddAligned[x.s, y.s, Aligned[x, y]]

FSub[x \in Float, y \in Float] == FAdd[x, FNeg[y]]

FMul[x \in Float, y \in Float] ==
  IF x = Zero \/ y = Zero THEN Zero
  ELSE Round[IF x.s = y.s THEN 0 ELSE 1, BMul[x.m, y.m], x.e + y.e]

\* x / y for y # 0.  The quotient of the significands is taken to 58 bits
\* or more; when the division leaves a remainder, one more bit is appended
\* and set, so that Round sees which side of a tie the quotient is on
GuardBits == 57

\* the float nearest to (-1)^s * (d[1] + f) * 2^e, where 0 <= f < 1 and
\* f = 0 exactly when the remainder d[2] is 0
RoundQuotient[s \in {0, 1}, d \in BigNat \X BigNat, e \in Int] ==
  IF d[2] = <<>> THEN Round[s, d[1], e]
  ELSE Round[s, BAdd[BMulSmall[d[1], 2], <<1>>], e - 1]

FDiv[x \in Float, y \in Float] ==
  IF x = Zero THEN Zero
  ELSE RoundQuotient[IF x.s = y.s THEN 0 ELSE 1,
                     BDiv[BShl[x.m, GuardBits], y.m],
                     x.e - y.e - GuardBits]

\* a decimal literal num/den of the source text, read as Python reads it
Lit[num \in Nat, den \in Nat] == FDiv[FromInt[num], FromInt[den]]

\* min(a, b) and max(a, b) of Python: the first of the two unless the
\* second is strictly smaller (larger)
PyMin[a \in Float, b \in Float] == IF FLt[b, a] THEN b ELSE a

PyMax[a \in Float, b \in Float] == IF FLt[a, b] THEN b ELSE a

\* x or y: y when x is falsy, which for a float is x == 0
PyOr[x \in Float, y \in Float] == IF x = Zero THEN y ELSE x

(***************************************************************************)
(* The widgets and the static tables of the script.                        *)
(***************************************************************************)
\* options of st.selectbox, in the order of the list; also data.keys()
Panneaux ==
  <<"Monocristallin", "Polycristallin", "Amorphe", "Hétérojonction",
    "Bifacial">>

\* options of st.radio
Meteos == <<"Ensoleillé", "Nuageux", "Pluvieux">>

\* st.slider(..., 0, 25, 20)
SliderMin == 0

SliderMax == 25

SliderDefault == 20

Range(f) == {f[i] : i \in DOMAIN f}

surface_par_module == Lit[17, 10]

puissance_par_panneau == Lit[4, 10]

\* the dict data, a function of its keys
data ==
  [k \in Range(Panneaux) |->
     CASE k = "Monocristallin" ->
            [rendement |-> Lit[200, 10], prix |-> Lit[120, 100]]
       [] k = "Polycristallin" ->
            [rendement |-> Lit[175, 10], prix |-> Lit[100, 100]]
       [] k = "Amorphe" ->
            [rendement |-> Lit[100, 10], prix |-> Lit[80, 100]]
       [] k = "Hétérojonction" ->
            [rendement |-> Lit[215, 10], prix |-> Lit[150, 100]]
       [] k = "Bifacial" ->
            [rendement |-> Lit[195, 10], prix |-> Lit[140, 100]]]

\* the factors of Nuageux and Pluvieux exchanged
facteur_meteo_permute ==
  [k \in Range(Meteos) |->
     CASE k = "Ensoleillé" -> Lit[10, 10]
       [] k = "Nuageux" -> Lit[55, 100]
       [] k = "Pluvieux" -> Lit[75, 100]]

\* the dict literal that line 44 subscripts with meteo
facteur_meteo_table ==
  [k \in Range(Meteos) |->
     CASE k = "Ensoleillé" -> Lit[10, 10]
       [] k = "Nuageux" -> Lit[75, 100]
       [] k = "Pluvieux" -> Lit[55, 100]]

\* the dict literal that line 50 subscripts with meteo (the emoji by name)
emoji_meteo_table ==
  [k \in Range(Meteos) |->
     CASE k = "Ensoleillé" -> "soleil"
       [] k = "Nuageux" -> "nuage"
       [] k = "Pluvieux" -> "pluie"]

\* a lookup that falls back on the first entry, as d.get(key, default) would
SubscriptDefaut(d, key) ==
  IF key \in DOMAIN d THEN <<d[key]>> ELSE <<d[CHOOSE k \in DOMAIN d : TRUE]>>

\* d[key] of Python: <<d[key]>>, or <<>> when it raises KeyError
Subscript(d, key) == IF key \in DOMAIN d THEN <<d[key]>> ELSE <<>>

irradiation_marseille == 1824

conso_batiment == 8260

\* the whole of min(conso, production) counted as self-consumed
TauxTotal == Lit[10, 10]

\* the factor 0.9 of line 70
TauxAutoconso == Lit[9, 10]

(***************************************************************************)
(* The expressions of the sections DONNEES DE BASE and CALCULS, each as    *)
(* the source writes it; an int operand is converted to float first, as    *)
(* Python does for int * float.                                            *)
(***************************************************************************)
SurfaceTotale(nb) == FMul[surface_par_module, FromInt[nb]]

\* the power of the panels the slider leaves out
PuissanceKWpRestants(nb) ==
  FMul[FromInt[SliderMax - nb], puissance_par_panneau]

PuissanceKWp(nb) == FMul[FromInt[nb], puissance_par_panneau]

Production(kwp, facteur) ==
  FMul[FMul[kwp, FromInt[irradiation_marseille]], facteur]

\* the division of line 65 without its guard
DiviseurSansGarde(surface) == surface

\* a guard that shifts every area by 1 instead of replacing the zero area
DiviseurPlusUn(surface) == FAdd[surface, FromInt[1]]

\* surface_totale or 1
Diviseur(surface) == PyOr[surface, FromInt[1]]

Efficacite(prod, surface) == FDiv[prod, Diviseur(surface)]

\* the cost without the kW -> W conversion
CoutTotalSansConversion(kwp, prix) == FMul[kwp, prix]

CoutTotal(kwp, prix) == FMul[FMul[kwp, FromInt[1000]], prix]

\* self-consumption not capped by the consumption of the building
AutoconsoSansMin(prod) == FMul[prod, TauxAutoconso]

Autoconso(prod) == FMul[PyMin[FromInt[conso_batiment], prod], TauxAutoconso]

\* export taken as the production in excess of the consumption
InjecteHorsBesoin(prod, auto) ==
  PyMax[FromInt[0], FSub[prod, FromInt[conso_batiment]]]

Injecte(prod, auto) == PyMax[FromInt[0], FSub[prod, auto]]

Reprise(auto) == PyMax[FromInt[0], FSub[FromInt[conso_batiment], auto]]

\* a row whose power comes from the nominal efficiency of the type and the
\* area, rendement / 100 * surface, instead of the panel count
LigneDfRendement(type, nb, facteur, surface) ==
  LET kwp  == FMul[FDiv[data[type].rendement, FromInt[100]], surface]
      prod == FMul[FMul[kwp, FromInt[irradiation_marseille]], facteur]
  IN  [Type |-> type,
       Rendement |-> data[type].rendement,
       kWp |-> kwp,
       Cout |-> FMul[FMul[kwp, FromInt[1000]], data[type].prix],
       Production |-> prod,
       Efficacite |-> FDiv[prod, PyOr[surface, FromInt[1]]]]

\* one row of the DataFrame df: the columns of lines 111-119 for one type
LigneDf(type, nb, facteur, surface) ==
  LET kwp  == FMul[FromInt[nb], puissance_par_panneau]
      prod == FMul[FMul[kwp, FromInt[irradiation_marseille]], facteur]
  IN  [Type |-> type,
       Rendement |-> data[type].rendement,
       kWp |-> kwp,
       Cout |-> FMul[FMul[FMul[FromInt[nb], puissance_par_panneau],
                          FromInt[1000]], data[type].prix],
       Production |-> prod,
       Efficacite |-> FDiv[prod, PyOr[surface, FromInt[1]]]]

Df(nb, facteur, surface) ==
  [i \in DOMAIN Panneaux |-> LigneDf(Panneaux[i], nb, facteur, surface)]

(***************************************************************************)
(* The script as a state machine.  panneau, meteo and nb_panneaux are what *)
(* the three widgets return; ns is the module namespace, the names bound   *)
(* so far with their values; page is what has been handed to the display   *)
(* calls, as values, before their formatting; pc is the section the run    *)
(* is about to execute, or the exception that ended it.                    *)
(***************************************************************************)
VARIABLES panneau, meteo, nb_panneaux, pc, ns, page

vars == <<panneau, meteo, nb_panneaux, pc, ns, page>>

\* the empty namespace
Vide == [k \in {} |-> Zero]

Element(elt, label, value) == [elt |-> elt, label |-> label, value |-> value]

\* first run of a session: every widget returns its default
Init ==
  /\ panneau = Panneaux[1]
  /\ meteo = Meteos[1]
  /\ nb_panneaux = SliderDefault
  /\ pc = "DONNEES"
  /\ ns = Vide
  /\ page = <<>>

\* section DONNEES DE BASE, lines 32-54
DonneesDeBase ==
  /\ pc = "DONNEES"
  /\ \E surface \in {SurfaceTotale(nb_panneaux)},
        facteur \in {Subscript(facteur_meteo_table, meteo)},
        emoji \in {Subscript(emoji_meteo_table, meteo)} :
       IF facteur = <<>> \/ emoji = <<>>
       THEN /\ pc' = "KeyError"
            /\ ns' = [surface_totale |-> surface]
       ELSE /\ pc' = "CALCULS"
            /\ ns' = [surface_totale |-> surface,
                      facteur_meteo |-> facteur[1],
                      emoji_meteo |-> emoji[1]]
  /\ UNCHANGED <<panneau, meteo, nb_panneaux, page>>

\* section CALCULS, lines 59-72
Calculs ==
  /\ pc = "CALCULS"
  /\ \E ligne \in {Subscript(data, panneau)} :
       IF ligne = <<>>
       THEN /\ pc' = "KeyError"
            /\ ns' = ns
       ELSE \E kwp \in {PuissanceKWp(nb_panneaux)} :
            \E prod \in {Production(kwp, ns.facteur_meteo)} :
              IF Diviseur(ns.surface_totale) = Zero
              THEN /\ pc' = "ZeroDivisionError"
                   /\ ns' = [rendement |-> ligne[1].rendement,
                             prix_watt |-> ligne[1].prix,
                             puissance_kWp |-> kwp,
                             production |-> prod] @@ ns
              ELSE \E auto \in {Autoconso(prod)} :
                     /\ pc' = "AFFICHAGE"
                     /\ ns' = [rendement |-> ligne[1].rendement,
                               prix_watt |-> ligne[1].prix,
                               puissance_kWp |-> kwp,
                               production |-> prod,
                               efficacite |->
                                 Efficacite(prod, ns.surface_totale),
                               cout_total |-> CoutTotal(kwp, ligne[1].prix),
                               autoconso |-> auto,
                               injecte |-> Injecte(prod, auto),
                               reprise |-> Reprise(auto)] @@ ns
  /\ UNCHANGED <<panneau, meteo, nb_panneaux, page>>

\* sections AFFICHAGE DES RESULTATS and GRAPHIQUE : ENERGIE, lines 77-104
Affichage ==
  /\ pc = "AFFICHAGE"
  /\ page' = page \o
       << Element("subheader", "Résultats de simulation", ns.emoji_meteo),
          Element("metric", "Production estimée", ns.production),
          Element("metric", "Puissance installée", ns.puissance_kWp),
          Element("metric", "Efficacité réelle", ns.efficacite),
          Element("metric", "Coût total", ns.cout_total),
          Element("markdown", "Rendement nominal", ns.rendement),
          Element("bar", "Répartition annuelle de l'énergie",
                  <<ns.autoconso, ns.injecte, ns.reprise>>) >>
  /\ pc' = "COMPARAISON"
  /\ UNCHANGED <<panneau, meteo, nb_panneaux, ns>>

\* sections COMPARAISON DES TYPES and FOOTER, lines 109-152
Comparaison ==
  /\ pc = "COMPARAISON"
  /\ \E df \in {Df(nb_panneaux, ns.facteur_meteo, ns.surface_totale)} :
         /\ ns' = [df |-> df] @@ ns
         /\ page' = page \o
              << Element("bar", "Production annuelle",
                         [i \in DOMAIN df |-> df[i].Production]),
                 Element("bar", "Efficacité énergétique",
                         [i \in DOMAIN df |-> df[i].Efficacite]),
                 Element("bar", "Coût estimé",
                         [i \in DOMAIN df |-> df[i].Cout]) >>
  /\ pc' = "FIN"
  /\ UNCHANGED <<panneau, meteo, nb_panneaux>>

\* the user moves one widget: Streamlit drops the run and its namespace and
\* runs the script again from the top
Rerun ==
  /\ pc' = "DONNEES"
  /\ ns' = Vide
  /\ page' = <<>>

ChoisirPanneau ==
  /\ \E p \in Range(Panneaux) : p # panneau /\ panneau' = p
  /\ Rerun
  /\ UNCHANGED <<meteo, nb_panneaux>>

ChoisirMeteo ==
  /\ \E w \in Range(Meteos) : w # meteo /\ meteo' = w
  /\ Rerun
  /\ UNCHANGED <<panneau, nb_panneaux>>

ChoisirNombre ==
  /\ \E n \in SliderMin..SliderMax : n # nb_panneaux /\ nb_panneaux' = n
  /\ Rerun
  /\ UNCHANGED <<panneau, meteo>>

Next ==
  \/ DonneesDeBase
  \/ Calculs
  \/ Affichage
  \/ Comparaison
  \/ ChoisirPanneau
  \/ ChoisirMeteo
  \/ ChoisirNombre

Spec == Init /\ [][Next]_vars

(***************************************************************************)
(* The calculation called with keys its caller chose: the same script,     *)
(* started with a panneau or a meteo that may be outside the tables.       *)
(***************************************************************************)
Inconnu == "Inconnu"

InitCaller ==
  /\ panneau \in Range(Panneaux) \cup {Inconnu}
  /\ meteo \in Range(Meteos) \cup {Inconnu}
  /\ nb_panneaux \in SliderMin..SliderMax
  /\ pc = "DONNEES"
  /\ ns = Vide
  /\ page = <<>>

SpecCaller == InitCaller /\ [][Next]_vars

Calcule == pc \in {"AFFICHAGE", "COMPARAISON", "FIN"}

(***************************************************************************)
(* Helpers of the properties.                                              *)
(***************************************************************************)
\* the production the script gives for n panels under weather w
ProductionDe(n, w) == Production(PuissanceKWp(n), facteur_meteo_table[w])

\* the money and energy names a run binds only when it gets through CALCULS
Resultats ==
  {"puissance_kWp", "production", "efficacite", "cout_total", "autoconso",
   "injecte", "reprise", "df"}

FAbs[x \in Float] == IF x.s = 1 THEN FNeg[x] ELSE x

\* |x - y| <= tol
Proche[x \in Float, y \in Float, tol \in Float] == FLe[FAbs[FSub[x, y]], tol]

\* ka * x <= kb * y in exact arithmetic, for floats x, y >= 0 and naturals
\* ka, kb given as limbs
ScaledLe[ka \in BigNat, x \in Float, kb \in BigNat, y \in Float] ==
  LET al == Aligned[x, y]
  IN  BCmp[BMul[al.a, ka], BMul[al.b, kb]] <= 0

(***************************************************************************)
(* Properties.                                                             *)
(***************************************************************************)
\* C1: with nb_panneaux = 0 the run raises nothing, whatever the panel type
\* and the weather, and once CALCULS is done the total area, the installed
\* power, the production, the efficiency, the total cost, the self-consumed
\* and the exported energy are 0 and the imported energy is 8260.
C1_ZeroPanneaux ==
  nb_panneaux = 0 =>
    /\ pc \notin {"KeyError", "ZeroDivisionError"}
    /\ Calcule =>
         /\ ns.surface_totale = Zero
         /\ ns.puissance_kWp = Zero
         /\ ns.production = Zero
         /\ ns.efficacite = Zero
         /\ ns.cout_total = Zero
         /\ ns.autoconso = Zero
         /\ ns.injecte = Zero
         /\ ns.reprise = FromInt[8260]

C1_Witness == pc = "FIN" /\ nb_panneaux = 0 /\ meteo = "Pluvieux"

\* C2: with C = 8260 and P = nb_panneaux * 0.4 * 1824 * weather factor, the
\* run binds production to P, autoconso to min(C, P) * 0.9, injecte to
\* max(0, P - autoconso) and reprise to max(0, C - autoconso), each
\* operation being the float operation of Python.
C2_Bilan ==
  Calcule =>
    LET C == FromInt[8260]
        P == FMul[FMul[FMul[FromInt[nb_panneaux], Lit[4, 10]], FromInt[1824]],
                  facteur_meteo_table[meteo]]
    IN  /\ ns.production = P
        /\ ns.autoconso = FMul[PyMin[C, P], Lit[9, 10]]
        /\ ns.injecte = PyMax[Zero, FSub[P, ns.autoconso]]
        /\ ns.reprise = PyMax[Zero, FSub[C, ns.autoconso]]

C2_Witness ==
  /\ pc = "AFFICHAGE"
  /\ nb_panneaux = 25
  /\ FLt[FromInt[8260], ns.production]

\* C3: autoconso + injecte is the production, as floats and without any
\* rounding, below and above the consumption of the building; the clamp
\* max(0, ...) of injecte never replaces production - autoconso.
C3_Somme ==
  Calcule =>
    /\ FAdd[ns.autoconso, ns.injecte] = ns.production
    /\ ns.injecte = FSub[ns.production, ns.autoconso]

C3_Witness ==
  /\ pc = "FIN"
  /\ FLt[FromInt[8260], ns.production]
  /\ ns.autoconso # Zero
  /\ ns.injecte # Zero

\* C4: the area is 0 exactly when nb_panneaux is 0; the efficiency is 0
\* when the area is 0 and is otherwise production / (nb_panneaux * 1.7),
\* the divisor 1 being used for the zero area only; the column
\* Efficacite of df follows the same rule on the column Production.
C4_Efficacite ==
  /\ Calcule =>
       LET aire == FMul[FromInt[nb_panneaux], Lit[17, 10]]
       IN  /\ ns.surface_totale = aire
           /\ (aire = Zero) <=> (nb_panneaux = 0)
           /\ ns.efficacite =
                IF aire = Zero THEN Zero ELSE FDiv[ns.production, aire]
  /\ pc = "FIN" =>
       \A i \in DOMAIN ns.df :
         ns.df[i].Efficacite =
           IF ns.surface_totale = Zero THEN Zero
           ELSE FDiv[ns.df[i].Production, ns.surface_totale]

C4_Witness ==
  /\ pc = "FIN"
  /\ nb_panneaux = 7
  /\ ns.surface_totale # Zero
  /\ ns.efficacite # Zero

\* C5: a run whose panneau or meteo is no key of the tables is ended by
\* the KeyError of the lookup: from the section that subscripts the table
\* it goes to KeyError and nowhere else, no factor, efficiency or price is
\* bound in place of the missing one, none of the results is bound and
\* nothing is displayed.
CleInconnue ==
  panneau \notin Range(Panneaux) \/ meteo \notin Range(Meteos)

C5_ClesInconnues ==
  /\ [](CleInconnue =>
          /\ ~Calcule
          /\ page = <<>>
          /\ DOMAIN ns \cap Resultats = {}
          /\ meteo \notin Range(Meteos) =>
               /\ pc \in {"DONNEES", "KeyError"}
               /\ "facteur_meteo" \notin DOMAIN ns
          /\ panneau \notin Range(Panneaux) =>
               /\ pc \in {"DONNEES", "CALCULS", "KeyError"}
               /\ "rendement" \notin DOMAIN ns
               /\ "prix_watt" \notin DOMAIN ns)
  /\ [][/\ (meteo \notin Range(Meteos) /\ DonneesDeBase) => pc' = "KeyError"
        /\ (panneau \notin Range(Panneaux) /\ Calculs) => pc' = "KeyError"]_vars

C5_Witness ==
  /\ pc = "KeyError"
  /\ panneau = Inconnu
  /\ meteo \in Range(Meteos)
  /\ "facteur_meteo" \in DOMAIN ns

\* C6: df has one row per type of data, in the order of data; every row
\* has the installed power of the run and, through it and the area of the
\* run, the production and the efficiency of the run; the cost of the row
\* of type t is the cost CALCULS gives with the price of t, so that the row
\* of the selected type repeats production, efficiency and cost of the run.
C6_Comparaison ==
  pc = "FIN" =>
    /\ Len(ns.df) = 5
    /\ \A i \in DOMAIN ns.df :
         /\ ns.df[i].Type = Panneaux[i]
         /\ ns.df[i].Rendement = data[Panneaux[i]].rendement
         /\ ns.df[i].kWp = ns.puissance_kWp
         /\ ns.df[i].Production = ns.production
         /\ ns.df[i].Efficacite = ns.efficacite
         /\ ns.df[i].Cout = CoutTotal(ns.puissance_kWp, data[Panneaux[i]].prix)
         /\ Panneaux[i] = panneau => ns.df[i].Cout = ns.cout_total

C6_Witness ==
  /\ pc = "FIN"
  /\ panneau = "Bifacial"
  /\ nb_panneaux = 25
  /\ ns.df[5].Cout = ns.cout_total
  /\ ns.df[1].Cout # ns.cout_total

\* C7: under the weather of the run, the production of every smaller
\* number of panels is at most the production of the run.
C7_Monotonie ==
  pc = "AFFICHAGE" =>
    /\ ns.production = ProductionDe(nb_panneaux, meteo)
    /\ \A n \in SliderMin..nb_panneaux :
         FLe[ProductionDe(n, meteo), ns.production]

C7_Witness ==
  /\ pc = "AFFICHAGE"
  /\ nb_panneaux = 25
  /\ FLt[ProductionDe(24, meteo), ns.production]

\* C8: for the number of panels of the run, when it is 1 or more, the
\* production under Ensoleillé is at least that under Nuageux, which is at
\* least that under Pluvieux; the run has the one of its weather.
C8_OrdreMeteo ==
  (pc = "AFFICHAGE" /\ nb_panneaux >= 1) =>
    LET soleil == ProductionDe(nb_panneaux, "Ensoleillé")
        nuage  == ProductionDe(nb_panneaux, "Nuageux")
        pluie  == ProductionDe(nb_panneaux, "Pluvieux")
    IN  /\ FLe[nuage, soleil]
        /\ FLe[pluie, nuage]
        /\ ns.production =
             CASE meteo = "Ensoleillé" -> soleil
               [] meteo = "Nuageux" -> nuage
               [] meteo = "Pluvieux" -> pluie

C8_Witness ==
  /\ pc = "AFFICHAGE"
  /\ nb_panneaux = 1
  /\ meteo = "Nuageux"
  /\ FLt[ns.production, ProductionDe(1, "Ensoleillé")]
  /\ FLt[ProductionDe(1, "Pluvieux"), ns.production]

\* the run the scenario is about
Scenario(w) ==
  pc = "FIN" /\ panneau = "Monocristallin" /\ nb_panneaux = 20 /\ meteo = w

\* what the scenario gives under both weathers with no rounding in doubt
ScenarioExact ==
  /\ Scenario("Ensoleillé") =>
       /\ ns.surface_totale = Lit[340, 10]
       /\ ns.puissance_kWp = Lit[80, 10]
       /\ ns.production = FromInt[14592]
       /\ ns.cout_total = FromInt[9600]
       /\ ns.autoconso = FromInt[7434]
       /\ ns.injecte = FromInt[7158]
       /\ ns.reprise = FromInt[826]
  /\ Scenario("Pluvieux") => ns.production = Lit[80256, 10]

\* C9 as stated: Monocristallin, 20 panels; under Ensoleillé the area is
\* 34.0, the power 8.0, the production 14592, the cost 9600, autoconso
\* 7434, injecte 7158 and reprise 826; under Pluvieux the production is
\* 8025.6, autoconso 7223.04, injecte 802.56 and reprise 1036.96.
C9_Original ==
  /\ ScenarioExact
  /\ Scenario("Pluvieux") =>
       /\ ns.autoconso = Lit[722304, 100]
       /\ ns.injecte = Lit[80256, 100]
       /\ ns.reprise = Lit[103696, 100]

Tolerance == Lit[1, 1000000000]

\* C9 as amended: the values under Ensoleillé and the production under
\* Pluvieux are exact; under Pluvieux autoconso, injecte and reprise are
\* 7223.04, 802.56 and 1036.96 to within 1e-9 only: autoconso is the float
\* above 7223.04, injecte and reprise are floats below 802.56 and 1036.96.
C9_Scenario ==
  /\ ScenarioExact
  /\ Scenario("Pluvieux") =>
       /\ Proche[ns.autoconso, Lit[722304, 100], Tolerance]
       /\ Proche[ns.injecte, Lit[80256, 100], Tolerance]
       /\ Proche[ns.reprise, Lit[103696, 100], Tolerance]
       /\ FLt[Lit[722304, 100], ns.autoconso]
       /\ FLt[ns.injecte, Lit[80256, 100]]
       /\ FLt[ns.reprise, Lit[103696, 100]]

C9_Witness == Scenario("Pluvieux") /\ ns.autoconso # Lit[722304, 100]

Un == <<1>>

Dix == <<10>>

\* 10^10 and 10^9 - 1 as limbs
DixMilliards == BMul[BFromInt[100000], BFromInt[100000]]

PresqueUnMilliard == BFromInt[999999999]

PositifsEnsemble ==
  /\ FLt[Zero, ns.injecte]
  /\ FLt[Zero, ns.reprise]
  /\ FLe[FromInt[826], ns.reprise]

NonNegatifs == ns.autoconso.s = 0 /\ ns.injecte.s = 0 /\ ns.reprise.s = 0

\* C10 as stated: with 1 panel or more injecte and reprise are both above
\* 0, injecte is at least production / 10 and reprise at least 826; with 0
\* panels or more autoconso, injecte and reprise are not negative.
C10_Original ==
  Calcule =>
    /\ NonNegatifs
    /\ nb_panneaux >= 1 =>
         /\ PositifsEnsemble
         /\ ScaledLe[Un, ns.production, Dix, ns.injecte]

\* C10 as amended: the same, injecte being at least 10% of the production
\* up to the rounding of the floats only: it is never below
\* 0.0999999999 * production.
C10_EnergiesPositives ==
  Calcule =>
    /\ NonNegatifs
    /\ nb_panneaux >= 1 =>
         /\ PositifsEnsemble
         /\ ScaledLe[PresqueUnMilliard, ns.production, DixMilliards, ns.injecte]

C10_Witness ==
  /\ pc = "FIN"
  /\ nb_panneaux = 1
  /\ meteo = "Nuageux"
  /\ FLt[Zero, ns.injecte]
  /\ ~ScaledLe[Un, ns.production, Dix, ns.injecte]

====
